---------------------------- MODULE Spec2Model ----------------------------
(* A model of proto_sep/protostars.py: Protostar, Group, Region.from_file, *)
(* Catalog.from_files and the Catalog's flattened views.                   *)
(*                                                                         *)
(* The program is sequential and its entities are built once, so every     *)
(* constructor and property is a pure operator computed the way the code   *)
(* computes it (loops as recursions over the index), and each              *)
(* specification draws the inputs in Init and applies the operation in one *)
(* action.                                                                 *)
EXTENDS Integers, Sequences, FiniteSets, TLC

VARIABLES
    pc,          \* position of the caller: "start", "built", "raised"
    protostars,  \* argument of Group(...)                      (SpecGroup)
    group,       \* outcome of Group(...)                       (SpecGroup)
    data,        \* the table read by Region.from_file          (SpecRegion)
    region,      \* outcome of Region.from_file                 (SpecRegion)
    files,       \* the tables behind Catalog.from_files(*files)     (Spec)
    catalog,     \* outcome of Catalog.from_files                    (Spec)
    view,        \* outcome of the last property read on the Catalog (Spec)
    log          \* the warnings emitted through log.warning

vars == <<pc, protostars, group, data, region, files, catalog, view, log>>

(***************************************************************************)
(* Bounds                                                                  *)
(***************************************************************************)
MaxStars == 3    \* longest protostar list handed to Group(...) directly
MaxRows == 4     \* most rows of a table handed to Region.from_file
MaxFiles == 2    \* most files handed to Catalog.from_files

(***************************************************************************)
(* Floating point values: a number or NaN.  Comparisons with NaN are false *)
(* and arithmetic on NaN gives NaN, as in numpy.                           *)
(***************************************************************************)
F(n) == [nan |-> FALSE, v |-> n]
NaN == [nan |-> TRUE, v |-> 0]

isfinite(x) == ~x.nan

FGreater(a, b) == ~a.nan /\ ~b.nan /\ a.v > b.v

\* np.abs(a - b)
AbsDiff(a, b) ==
    IF a.nan \/ b.nan THEN NaN
    ELSE IF a.v >= b.v THEN F(a.v - b.v) ELSE F(b.v - a.v)

\* largest r with r * r <= n
RECURSIVE ISqrtFrom(_, _)
ISqrtFrom(n, r) == IF (r + 1) * (r + 1) > n THEN r ELSE ISqrtFrom(n, r + 1)

\* np.sqrt(a ** 2 + b ** 2), rounded down to a whole number
QuadratureSum(a, b) ==
    IF a.nan \/ b.nan THEN NaN
    ELSE F(ISqrtFrom(a.v * a.v + b.v * b.v, 0))

\* max([a, b]): the builtin keeps the first element unless a later one
\* compares greater
PyMax(a, b) == IF FGreater(b, a) THEN b ELSE a

\* SkyCoord.separation(...).rad on whole-degree positions: NaN when a
\* coordinate is NaN, otherwise a distance that is symmetric and zero
\* exactly between equal positions
Separation(l1, l2) ==
    IF l1.ra.nan \/ l1.dec.nan \/ l2.ra.nan \/ l2.dec.nan THEN NaN
    ELSE F(AbsDiff(l1.ra, l2.ra).v + AbsDiff(l1.dec, l2.dec).v)

(***************************************************************************)
(* Protostar and Group                                                     *)
(***************************************************************************)
Protostar(name, location, inclination, inclination_error, rmaj, tbol) ==
    [name |-> name, location |-> location, inclination |-> inclination,
     inclination_error |-> inclination_error, rmaj |-> rmaj, tbol |-> tbol]

\* The value of a function that ends without reaching a return statement
ReturnsNone == [none |-> TRUE, seps |-> <<>>, inc_diff |-> <<>>,
                inc_diff_err |-> <<>>, rmaj |-> <<>>]

\* for ps in self.protostars[1:] of _compute_separations, entered at list
\* index i (1-based: the reference self.protostars[0] is ps[1]).  With no
\* element left the loop ends and the function ends without a return
\* statement; otherwise the body appends to the four lists and its last
\* statement returns them, so no later element is visited.
ComputeLoop(ps, i, acc) ==
    IF i > Len(ps) THEN ReturnsNone
    ELSE [none |-> FALSE,
          seps |-> Append(acc.seps,
                          Separation(ps[1].location, ps[i].location)),
          inc_diff |-> Append(acc.inc_diff,
                              AbsDiff(ps[1].inclination, ps[i].inclination)),
          inc_diff_err |-> Append(acc.inc_diff_err,
                                  QuadratureSum(ps[1].inclination_error,
                                                ps[i].inclination_error)),
          rmaj |-> Append(acc.rmaj, PyMax(ps[1].rmaj, ps[i].rmaj))]

_compute_separations(ps) ==
    ComputeLoop(ps, 2, [none |-> FALSE, seps |-> <<>>, inc_diff |-> <<>>,
                        inc_diff_err |-> <<>>, rmaj |-> <<>>])

NoGroup == [protostars |-> <<>>, separation |-> <<>>,
            inclination_difference |-> <<>>,
            inclination_difference_error |-> <<>>, rmaj |-> <<>>]

\* Group(ps): the dataclass constructor followed by __post_init__, which
\* unpacks the tuple _compute_separations returns; unpacking None raises
NewGroup(ps) ==
    LET r == _compute_separations(ps) IN
    IF r.none THEN [raised |-> "TypeError", obj |-> NoGroup]
    ELSE [raised |-> "no",
          obj |-> [protostars |-> ps,
                   separation |-> r.seps,
                   inclination_difference |-> r.inc_diff,
                   inclination_difference_error |-> r.inc_diff_err,
                   rmaj |-> r.rmaj]]

(***************************************************************************)
(* Row names.  A name is the sequence of its characters, "A_1_2" being     *)
(* <<"A", "_", "1", "_", "2">>.                                            *)
(***************************************************************************)
DigitVal == ("0" :> 0) @@ ("1" :> 1) @@ ("2" :> 2) @@ ("3" :> 3) @@ ("4" :> 4)
            @@ ("5" :> 5) @@ ("6" :> 6) @@ ("7" :> 7) @@ ("8" :> 8) @@ ("9" :> 9)

\* k.split("_"): the pieces between the underscores, empty pieces included
RECURSIVE SplitFrom(_, _, _, _)
SplitFrom(k, i, piece, out) ==
    IF i > Len(k) THEN Append(out, piece)
    ELSE IF k[i] = "_" THEN SplitFrom(k, i + 1, <<>>, Append(out, piece))
    ELSE SplitFrom(k, i + 1, Append(piece, k[i]), out)

split(k) == SplitFrom(k, 1, <<>>, <<>>)

\* whether int(t) accepts the piece t: one or more decimal digits
IsIntLiteral(t) == Len(t) > 0 /\ \A i \in 1..Len(t) : t[i] \in DOMAIN DigitVal

\* int(t) of an accepted piece
RECURSIVE IntFrom(_, _, _)
IntFrom(t, i, n) ==
    IF i > Len(t) THEN n ELSE IntFrom(t, i + 1, 10 * n + DigitVal[t[i]])

int(t) == IntFrom(t, 1, 0)

(***************************************************************************)
(* Region.from_file.  A table is the sequence of its rows, each            *)
(* [Name, RA, DEC, Inc, Inc_err, Rmaj, Tbol0], indexed by Name.            *)
(***************************************************************************)
\* The loop over data.iterrows(): unpacking the split name into three
\* variables and int() of the field and object parts raise ValueError
RECURSIVE ParseNames(_, _, _)
ParseNames(d, i, acc) ==
    IF i > Len(d) THEN acc
    ELSE LET parts == split(d[i].Name) IN
         IF Len(parts) # 3 THEN [acc EXCEPT !.raised = "ValueError"]
         ELSE IF ~IsIntLiteral(parts[2]) \/ ~IsIntLiteral(parts[3])
              THEN [acc EXCEPT !.raised = "ValueError"]
         ELSE ParseNames(d, i + 1,
                [raised |-> "no",
                 fields |-> Append(acc.fields, int(parts[2])),
                 objects |-> Append(acc.objects, int(parts[3])),
                 names |-> Append(acc.names, d[i].Name)])

\* the elements of the finite set S of integers, ascending
RECURSIVE Ascending(_)
Ascending(S) ==
    IF S = {} THEN <<>>
    ELSE LET m == CHOOSE x \in S : \A y \in S : x <= y
         IN <<m>> \o Ascending(S \ {m})

\* the distinct values in the order of their first appearance
RECURSIVE FirstSeen(_, _, _)
FirstSeen(fields, i, out) ==
    IF i > Len(fields) THEN out
    ELSE FirstSeen(fields, i + 1,
            IF \E j \in 1..Len(out) : out[j] = fields[i] THEN out
            ELSE Append(out, fields[i]))

\* mutant of unique: the values are not sorted
unique_unsorted(fields) == FirstSeen(fields, 1, <<>>)

\* np.unique(fields): the distinct values, sorted
unique(fields) == Ascending({fields[i] : i \in 1..Len(fields)})

\* mutant of FieldMask: >= for ==
FieldMask_geq(fields, f) == [i \in 1..Len(fields) |-> fields[i] >= f]

\* idx = fields == f: the mask of the rows of field f
FieldMask(fields, f) == [i \in 1..Len(fields) |-> fields[i] = f]

\* a[idx]: the elements of a the mask selects, in order
RECURSIVE MaskedFrom(_, _, _)
MaskedFrom(a, idx, i) ==
    IF i > Len(a) THEN <<>>
    ELSE (IF idx[i] THEN <<a[i]>> ELSE <<>>) \o MaskedFrom(a, idx, i + 1)

Masked(a, idx) == MaskedFrom(a, idx, 1)

\* mutant of IsCandidate: > 0 for > 1
IsCandidate_nonempty(n) == n > 0

\* if len(objects[idx]) > 1
IsCandidate(n) == n > 1

\* for f in np.unique(fields): the candidate groups' names
RECURSIVE GroupNames(_, _, _, _)
GroupNames(parsed, fs, i, group_names) ==
    IF i > Len(fs) THEN group_names
    ELSE LET idx == FieldMask(parsed.fields, fs[i]) IN
         GroupNames(parsed, fs, i + 1,
            IF IsCandidate(Len(Masked(parsed.objects, idx)))
            THEN Append(group_names, Masked(parsed.names, idx))
            ELSE group_names)

\* data.loc[name]: the row indexed by name
loc(d, name) == d[CHOOSE i \in 1..Len(d) : d[i].Name = name]

\* mutant of HasPosition: the check is left out
HasPosition_always(row) == TRUE

\* if np.isfinite(data.loc[name].RA)
HasPosition(row) == isfinite(row.RA)

\* for name in group: the Protostars of the rows that pass the check
RECURSIVE BuildTmp(_, _, _, _)
BuildTmp(d, names, i, tmp) ==
    IF i > Len(names) THEN tmp
    ELSE LET row == loc(d, names[i]) IN
         BuildTmp(d, names, i + 1,
            IF HasPosition(row)
            THEN Append(tmp, Protostar(names[i],
                                       [ra |-> row.RA, dec |-> row.DEC],
                                       row.Inc, row.Inc_err, row.Rmaj,
                                       row.Tbol0))
            ELSE tmp)

\* if len(tmp) > 1
IsKept(n) == n > 1

\* for group in group_names: a Group of the rows kept, or a warning that
\* carries the region label of the group's last name
RECURSIVE BuildGroups(_, _, _, _)
BuildGroups(d, group_names, i, acc) ==
    IF i > Len(group_names) THEN acc
    ELSE LET names == group_names[i]
             tmp == BuildTmp(d, names, 1, <<>>)
         IN IF IsKept(Len(tmp))
            THEN LET g == NewGroup(tmp) IN
                 IF g.raised # "no" THEN [acc EXCEPT !.raised = g.raised]
                 ELSE BuildGroups(d, group_names, i + 1,
                        [acc EXCEPT !.groups = Append(@, g.obj)])
            ELSE BuildGroups(d, group_names, i + 1,
                   [acc EXCEPT !.warnings =
                       Append(@, split(names[Len(names)])[1])])

\* Region.from_file on the table d: [raised, groups, warnings]
from_file(d) ==
    LET parsed == ParseNames(d, 1, [raised |-> "no", fields |-> <<>>,
                                    objects |-> <<>>, names |-> <<>>])
    IN IF parsed.raised # "no"
       THEN [raised |-> parsed.raised, groups |-> <<>>, warnings |-> <<>>]
       ELSE BuildGroups(d,
                GroupNames(parsed, unique(parsed.fields), 1, <<>>), 1,
                [raised |-> "no", groups |-> <<>>, warnings |-> <<>>])

(***************************************************************************)
(* Catalog                                                                 *)
(***************************************************************************)
\* regions = [Region.from_file(f) for f in files]: an exception leaves the
\* comprehension, and the list built so far is dropped with it
RECURSIVE ReadRegions(_, _, _)
ReadRegions(fs, i, acc) ==
    IF i > Len(fs) THEN acc
    ELSE LET r == from_file(fs[i]) IN
         IF r.raised # "no"
         THEN [raised |-> r.raised, regions |-> <<>>,
               warnings |-> acc.warnings \o r.warnings]
         ELSE ReadRegions(fs, i + 1,
                [raised |-> "no",
                 regions |-> Append(acc.regions, [groups |-> r.groups]),
                 warnings |-> acc.warnings \o r.warnings])

\* mutant of from_files: a file that fails is skipped
RECURSIVE ReadRegionsSkipping(_, _, _)
ReadRegionsSkipping(fs, i, acc) ==
    IF i > Len(fs) THEN acc
    ELSE LET r == from_file(fs[i]) IN
         ReadRegionsSkipping(fs, i + 1,
            [raised |-> "no",
             regions |-> IF r.raised # "no" THEN acc.regions
                         ELSE Append(acc.regions, [groups |-> r.groups]),
             warnings |-> acc.warnings \o r.warnings])

from_files_skipping(fs) ==
    ReadRegionsSkipping(fs, 1,
        [raised |-> "no", regions |-> <<>>, warnings |-> <<>>])

\* Catalog.from_files(*fs): [raised, regions, warnings]
from_files(fs) ==
    ReadRegions(fs, 1, [raised |-> "no", regions |-> <<>>, warnings |-> <<>>])

\* The declared types of the fields asdict() gives
GroupFieldType ==
    [protostars |-> "list", separation |-> "ndarray",
     inclination_difference |-> "ndarray",
     inclination_difference_error |-> "ndarray", rmaj |-> "ndarray"]

ProtostarFieldType ==
    [name |-> "str", location |-> "SkyCoord", inclination |-> "float",
     inclination_error |-> "float", rmaj |-> "float", tbol |-> "float"]

\* output.extend(x): x must be iterable; a float is not
extend(out, x, type) ==
    IF out.raised # "no" THEN out
    ELSE IF type \in {"list", "ndarray", "str"}
         THEN [out EXCEPT !.value = @ \o x]
         ELSE [out EXCEPT !.raised = "TypeError"]

\* for group in region.groups: output.extend(asdict(group)[variable])
RECURSIVE WalkGroups(_, _, _, _)
WalkGroups(groups, j, variable, out) ==
    IF j > Len(groups) \/ out.raised # "no" THEN out
    ELSE WalkGroups(groups, j + 1, variable,
            extend(out, groups[j][variable], GroupFieldType[variable]))

\* for region in self.regions
RECURSIVE WalkRegions(_, _, _, _)
WalkRegions(regions, i, variable, out) ==
    IF i > Len(regions) \/ out.raised # "no" THEN out
    ELSE WalkRegions(regions, i + 1, variable,
            WalkGroups(regions[i].groups, 1, variable, out))

\* mutant of _walk_regions_and_groups: the first region is skipped
_walk_regions_and_groups_from_second(cat, variable) ==
    WalkRegions(cat.regions, 2, variable, [raised |-> "no", value |-> <<>>])

_walk_regions_and_groups(cat, variable) ==
    WalkRegions(cat.regions, 1, variable, [raised |-> "no", value |-> <<>>])

\* for protostar in group.protostars:
\*     output.extend(asdict(protostar)[variable])
RECURSIVE WalkStars(_, _, _, _)
WalkStars(ps, k, variable, out) ==
    IF k > Len(ps) \/ out.raised # "no" THEN out
    ELSE WalkStars(ps, k + 1, variable,
            extend(out, ps[k][variable], ProtostarFieldType[variable]))

RECURSIVE WalkStarGroups(_, _, _, _)
WalkStarGroups(groups, j, variable, out) ==
    IF j > Len(groups) \/ out.raised # "no" THEN out
    ELSE WalkStarGroups(groups, j + 1, variable,
            WalkStars(groups[j].protostars, 1, variable, out))

RECURSIVE WalkStarRegions(_, _, _, _)
WalkStarRegions(regions, i, variable, out) ==
    IF i > Len(regions) \/ out.raised # "no" THEN out
    ELSE WalkStarRegions(regions, i + 1, variable,
            WalkStarGroups(regions[i].groups, 1, variable, out))

_walk_protostars(cat, variable) ==
    WalkStarRegions(cat.regions, 1, variable, [raised |-> "no", value |-> <<>>])

(***************************************************************************)
(* Inputs                                                                  *)
(***************************************************************************)
DigitChar == <<"1", "2", "3", "4", "5", "6", "7", "8", "9">>

\* The name of row i: "A_<f>_<i>"; with f = "" the field part is missing
\* ("A_<i>"), with f = "x" it is no integer
RowName(i, f) ==
    IF f = "" THEN <<"A", "_", DigitChar[i]>>
    ELSE <<"A", "_", f, "_", DigitChar[i]>>

\* Row i of a table: pos = "ok" has every column, "nan" is a blank row,
\* "decnan" lacks the declination alone
MkRow(i, kind) ==
    IF kind.pos = "nan"
    THEN [Name |-> RowName(i, kind.field), RA |-> NaN, DEC |-> NaN,
          Inc |-> NaN, Inc_err |-> NaN, Rmaj |-> NaN, Tbol0 |-> NaN]
    ELSE [Name |-> RowName(i, kind.field),
          RA |-> F(i * i),
          DEC |-> IF kind.pos = "decnan" THEN NaN ELSE F(20),
          Inc |-> F((3 * i) % 7),
          Inc_err |-> F(i),
          Rmaj |-> F((2 * i) % 5),
          Tbol0 |-> F(100 - 10 * i)]

RowKinds ==
    [field : {"1", "2"}, pos : {"ok", "nan", "decnan"}]
    \cup [field : {"", "x"}, pos : {"ok"}]

MkTable(kinds) == [i \in 1..Len(kinds) |-> MkRow(i, kinds[i])]

\* every table of at most MaxRows rows
Tables == {MkTable(kinds) : kinds \in UNION {[1..n -> RowKinds] : n \in 0..MaxRows}}

K(f, pos) == [field |-> f, pos |-> pos]

\* the tables a Catalog is built from
CatalogTables ==
    { MkTable(<<>>),
      MkTable(<<K("1", "ok"), K("1", "ok")>>),
      MkTable(<<K("2", "ok"), K("2", "ok")>>),
      MkTable(<<K("1", "ok"), K("1", "ok"), K("1", "ok")>>),
      MkTable(<<K("1", "ok"), K("1", "ok"), K("2", "ok")>>),
      MkTable(<<K("2", "ok"), K("1", "ok"), K("2", "ok"), K("1", "ok")>>),
      MkTable(<<K("1", "ok"), K("1", "nan"), K("2", "ok"), K("2", "decnan")>>),
      MkTable(<<K("1", "nan"), K("1", "nan")>>),
      MkTable(<<K("1", "ok"), K("1", "ok"), K("", "ok")>>),
      MkTable(<<K("x", "ok"), K("1", "ok"), K("1", "ok")>>) }

FileLists == UNION {[1..n -> CatalogTables] : n \in 0..MaxFiles}

\* the protostar of a complete row i
Star(i) ==
    LET row == MkRow(i, K("1", "ok")) IN
    Protostar(row.Name, [ra |-> row.RA, dec |-> row.DEC], row.Inc,
              row.Inc_err, row.Rmaj, row.Tbol0)

StarLists == UNION {[1..n -> {Star(i) : i \in 1..MaxStars + 1}] : n \in 0..MaxStars}

(***************************************************************************)
(* Specifications                                                          *)
(***************************************************************************)
NoView == [prop |-> "none", raised |-> "no", value |-> <<>>]
NoCatalog == [built |-> FALSE, regions |-> <<>>]
NoRegion == [raised |-> "no", groups |-> <<>>]
NoResult == [raised |-> "no", obj |-> NoGroup]

\* ---- Group(protostars) ----
InitGroup ==
    /\ pc = "start"
    /\ protostars \in StarLists
    /\ group = NoResult
    /\ data = <<>> /\ region = NoRegion /\ files = <<>>
    /\ catalog = NoCatalog /\ view = NoView /\ log = <<>>

ConstructGroup ==
    /\ pc = "start"
    /\ LET g == NewGroup(protostars) IN
       /\ group' = g
       /\ pc' = IF g.raised = "no" THEN "built" ELSE "raised"
    /\ UNCHANGED <<protostars, data, region, files, catalog, view, log>>

NextGroup == ConstructGroup

SpecGroup == InitGroup /\ [][NextGroup]_vars

\* ---- Region.from_file(data) ----
InitRegion ==
    /\ pc = "start"
    /\ data \in Tables
    /\ region = NoRegion
    /\ log = <<>>
    /\ protostars = <<>> /\ group = NoResult /\ files = <<>>
    /\ catalog = NoCatalog /\ view = NoView

RegionFromFile ==
    /\ pc = "start"
    /\ LET r == from_file(data) IN
       /\ region' = [raised |-> r.raised,
                     groups |-> IF r.raised = "no" THEN r.groups ELSE <<>>]
       /\ log' = log \o r.warnings
       /\ pc' = IF r.raised = "no" THEN "built" ELSE "raised"
    /\ UNCHANGED <<protostars, group, data, files, catalog, view>>

NextRegion == RegionFromFile

SpecRegion == InitRegion /\ [][NextRegion]_vars

\* ---- Catalog.from_files(*files) and the Catalog's properties ----
Init ==
    /\ pc = "start"
    /\ files \in FileLists
    /\ catalog = NoCatalog
    /\ view = NoView
    /\ log = <<>>
    /\ protostars = <<>> /\ group = NoResult /\ data = <<>>
    /\ region = NoRegion

CatalogFromFiles ==
    /\ pc = "start"
    /\ LET c == from_files(files) IN
       /\ catalog' = IF c.raised = "no"
                     THEN [built |-> TRUE, regions |-> c.regions]
                     ELSE NoCatalog
       /\ log' = log \o c.warnings
       /\ pc' = IF c.raised = "no" THEN "built" ELSE "raised"
    /\ UNCHANGED <<protostars, group, data, region, files, view>>

Read(prop, out) ==
    /\ pc = "built"
    /\ view' = [prop |-> prop, raised |-> out.raised,
                value |-> IF out.raised = "no" THEN out.value ELSE <<>>]
    /\ UNCHANGED <<pc, protostars, group, data, region, files, catalog, log>>

separation == Read("separation", _walk_regions_and_groups(catalog, "separation"))

inclination_difference ==
    Read("inclination_difference",
         _walk_regions_and_groups(catalog, "inclination_difference"))

inclination_difference_error ==
    Read("inclination_difference_error",
         _walk_regions_and_groups(catalog, "inclination_difference_error"))

rmaj == Read("rmaj", _walk_regions_and_groups(catalog, "rmaj"))

all_rmaj == Read("all_rmaj", _walk_protostars(catalog, "rmaj"))

all_tbol == Read("all_tbol", _walk_protostars(catalog, "tbol"))

Next ==
    \/ CatalogFromFiles
    \/ separation
    \/ inclination_difference
    \/ inclination_difference_error
    \/ rmaj
    \/ all_rmaj
    \/ all_tbol

Spec == Init /\ [][Next]_vars

(***************************************************************************)
(* What the claims speak of, read off the inputs                           *)
(***************************************************************************)
Digits == {"0", "1", "2", "3", "4", "5", "6", "7", "8", "9"}

Underscores(name) == {i \in 1..Len(name) : name[i] = "_"}

\* <region>_<field>_<object> with integer field and object parts
WellFormed(name) ==
    /\ Cardinality(Underscores(name)) = 2
    /\ LET a == CHOOSE i \in Underscores(name) :
                    \A j \in Underscores(name) : i <= j
           b == CHOOSE i \in Underscores(name) :
                    \A j \in Underscores(name) : j <= i
       IN /\ a + 1 < b
          /\ b < Len(name)
          /\ \A i \in ((a + 1)..(b - 1)) \cup ((b + 1)..Len(name)) :
                name[i] \in Digits

AllWellFormed(d) == \A i \in 1..Len(d) : WellFormed(d[i].Name)

FieldId(name) == int(split(name)[2])

FieldsOf(d) == {FieldId(d[i].Name) : i \in 1..Len(d)}

RowsOf(d, f) == {i \in 1..Len(d) : FieldId(d[i].Name) = f}

FiniteRowsOf(d, f) == {i \in RowsOf(d, f) : ~d[i].RA.nan}

SingleRowFields(d) == {f \in FieldsOf(d) : Cardinality(RowsOf(d, f)) = 1}

\* the fields of more than one row of which at most one has a finite RA
DegenerateFields(d) ==
    {f \in FieldsOf(d) : /\ Cardinality(RowsOf(d, f)) > 1
                         /\ Cardinality(FiniteRowsOf(d, f)) <= 1}

GroupFieldIds(g) == {FieldId(g.protostars[k].name) : k \in 1..Len(g.protostars)}

\* the names of the rows of field f with a finite RA, in table order
RECURSIVE MembersFrom(_, _, _)
MembersFrom(d, f, i) ==
    IF i > Len(d) THEN <<>>
    ELSE (IF i \in FiniteRowsOf(d, f) THEN <<d[i].Name>> ELSE <<>>)
         \o MembersFrom(d, f, i + 1)

GroupNamesOf(g) == [k \in 1..Len(g.protostars) |-> g.protostars[k].name]

RECURSIVE Concat(_)
Concat(seqs) == IF seqs = <<>> THEN <<>> ELSE Head(seqs) \o Concat(Tail(seqs))

\* the separation sequence of one Region: its groups' arrays in group order
RegionSeparation(groups) ==
    Concat([j \in 1..Len(groups) |-> groups[j].separation])

\* one entry per Protostar, region then group then protostar
StarsOfGroups(groups) ==
    Concat([j \in 1..Len(groups) |-> groups[j].protostars])

StarsOfCatalog(cat) ==
    Concat([i \in 1..Len(cat.regions) |-> StarsOfGroups(cat.regions[i].groups)])

DerivedLengths(g) ==
    {Len(g.separation), Len(g.inclination_difference),
     Len(g.inclination_difference_error), Len(g.rmaj)}

(***************************************************************************)
(* Claims                                                                  *)
(***************************************************************************)

\* C1 (as claimed; SpecGroup): a Group constructed from N >= 2 protostars
\* has four derived arrays of length exactly N - 1.
C1_DerivedArraysHaveLengthNMinus1 ==
    (pc # "start" /\ Len(protostars) >= 2) =>
        /\ group.raised = "no"
        /\ DerivedLengths(group.obj) = {Len(protostars) - 1}

\* C2 (as claimed; SpecGroup): for a Group of N >= 2 protostars and every
\* i in 0..N-2, inclination_difference[i] exists, is non-negative and is
\* abs(protostars[0].inclination - protostars[i+1].inclination).
C2_InclinationDifferenceOfEveryMember ==
    (pc # "start" /\ Len(protostars) >= 2) =>
        /\ group.raised = "no"
        /\ \A i \in 1..(Len(protostars) - 1) :
              /\ i <= Len(group.obj.inclination_difference)
              /\ group.obj.inclination_difference[i] =
                    AbsDiff(protostars[1].inclination,
                            protostars[i + 1].inclination)
              /\ group.obj.inclination_difference[i].v >= 0

\* C3 (SpecRegion): every Group of the Region from_file returns has at
\* least two protostars, all of one field id, and that field has neither
\* exactly one row in the table nor exactly one row left by the NaN filter.
C3_NoSingleRowPartitionInGroups ==
    pc = "built" =>
        \A j \in 1..Len(region.groups) :
            LET g == region.groups[j] IN
            /\ Len(g.protostars) >= 2
            /\ Cardinality(GroupFieldIds(g)) = 1
            /\ \A f \in GroupFieldIds(g) :
                  /\ Cardinality(RowsOf(data, f)) # 1
                  /\ Cardinality(FiniteRowsOf(data, f)) # 1

\* C3 witness: a Region with a Group was returned for a table in which
\* another field of two rows keeps exactly one row after the NaN filter.
C3_Witness ==
    /\ pc = "built"
    /\ Len(region.groups) >= 1
    /\ \E f \in FieldsOf(data) :
          /\ Cardinality(RowsOf(data, f)) = 2
          /\ Cardinality(FiniteRowsOf(data, f)) = 1

\* C4 (as claimed; SpecRegion): when a field id has a single row in the
\* table, the Region is returned without a Group for that field and a
\* warning was emitted for each such field.
C4_SingleRowFieldIsWarnedAbout ==
    (pc = "built" /\ SingleRowFields(data) # {}) =>
        /\ \A j \in 1..Len(region.groups) :
              GroupFieldIds(region.groups[j]) \cap SingleRowFields(data) = {}
        /\ Len(log) >= Cardinality(SingleRowFields(data))

\* C4 (amended; SpecRegion): for a table of well-formed, distinct names
\* the Region is returned; a field id with a single row gets no Group and
\* no warning;
\* one warning is emitted for each field of more than one row of which at
\* most one has a finite RA; every other field of the table gets its Group.
C4_SingleRowFieldIsDroppedSilently ==
    (pc # "start" /\ AllWellFormed(data)) =>
        /\ pc = "built"
        /\ \A j \in 1..Len(region.groups) :
              GroupFieldIds(region.groups[j]) \cap SingleRowFields(data) = {}
        /\ Len(log) = Cardinality(DegenerateFields(data))
        /\ \A f \in FieldsOf(data) \ (SingleRowFields(data) \cup DegenerateFields(data)) :
              \E j \in 1..Len(region.groups) :
                  GroupFieldIds(region.groups[j]) = {f}

\* C4 witness: a table with a single-row field and a field that is kept:
\* the Region is returned with the one Group and nothing was logged.
C4_Witness ==
    /\ pc = "built"
    /\ SingleRowFields(data) # {}
    /\ Len(region.groups) = 1
    /\ log = <<>>

\* C5 (Spec): the flattened separation of Catalog.from_files(F1, ..., Fn)
\* is the concatenation, in argument order, of the separation sequences of
\* Region.from_file(F1), ..., Region.from_file(Fn).
C5_SeparationIsConcatenationInFileOrder ==
    view.prop = "separation" =>
        /\ view.raised = "no"
        /\ view.value =
              Concat([i \in 1..Len(files) |->
                          RegionSeparation(from_file(files[i]).groups)])

\* C5 witness: separation was read on a Catalog of two files whose Regions
\* have different, non-empty separation sequences, one of them of two groups.
C5_Witness ==
    /\ view.prop = "separation"
    /\ Len(files) = 2
    /\ Len(catalog.regions[1].groups) = 2
    /\ Len(catalog.regions[2].groups) = 1
    /\ RegionSeparation(catalog.regions[1].groups)
          # RegionSeparation(catalog.regions[2].groups)

\* C6 (as claimed; Spec): reading all_rmaj (all_tbol) completes without
\* error and gives one entry per Protostar, its rmaj (tbol), in region,
\* group, protostar order.
C6_AllRmajAndAllTbolListEveryProtostar ==
    view.prop \in {"all_rmaj", "all_tbol"} =>
        /\ view.raised = "no"
        /\ LET stars == StarsOfCatalog(catalog) IN
           view.value = [k \in 1..Len(stars) |->
                            IF view.prop = "all_rmaj" THEN stars[k].rmaj
                            ELSE stars[k].tbol]

\* C7 (SpecRegion): the kept groups are in strictly ascending field-id
\* order whatever the row order, and the protostars of a group are the
\* rows of its field that have a finite RA, in table row order (so
\* protostars[0] is the first such row).
C7_GroupsAscendingMembersInRowOrder ==
    pc = "built" =>
        /\ \A i, j \in 1..Len(region.groups) :
              i < j => FieldId(region.groups[i].protostars[1].name)
                         < FieldId(region.groups[j].protostars[1].name)
        /\ \A j \in 1..Len(region.groups) :
              LET g == region.groups[j] IN
              GroupNamesOf(g) =
                  MembersFrom(data, FieldId(g.protostars[1].name), 1)

\* C7 witness: two groups were kept from a table whose first row belongs
\* to the larger field id.
C7_Witness ==
    /\ pc = "built"
    /\ Len(region.groups) = 2
    /\ FieldId(data[1].Name) = 2

\* C8 (Spec): if any file has a row name that is not
\* <region>_<field>_<object> with integer field and object,
\* Catalog.from_files raises and no Catalog, not even a partial one, exists.
C8_FromFilesIsAllOrNothing ==
    (pc # "start" /\ \E i \in 1..Len(files) : ~AllWellFormed(files[i])) =>
        /\ pc = "raised"
        /\ catalog = NoCatalog

\* C8 witness: from_files raised on a second file with a malformed name
\* after a first file that parses into a Region with a Group.
C8_Witness ==
    /\ pc = "raised"
    /\ Len(files) = 2
    /\ AllWellFormed(files[1])
    /\ from_file(files[1]).groups # <<>>
    /\ ~AllWellFormed(files[2])

\* C9 (as claimed; SpecRegion): every member of every Group has a finite
\* right ascension and a finite declination.
C9_MembersHaveFiniteRAAndDEC ==
    pc = "built" =>
        \A j \in 1..Len(region.groups) :
            \A k \in 1..Len(region.groups[j].protostars) :
                LET l == region.groups[j].protostars[k].location IN
                ~l.ra.nan /\ ~l.dec.nan

\* C9 (amended; SpecRegion): every member of every Group has a finite
\* right ascension: a row whose right ascension is NaN never becomes a
\* Protostar (the declination is not looked at).
C9_MembersHaveFiniteRA ==
    pc = "built" =>
        \A j \in 1..Len(region.groups) :
            \A k \in 1..Len(region.groups[j].protostars) :
                LET p == region.groups[j].protostars[k] IN
                /\ ~p.location.ra.nan
                /\ \A i \in 1..Len(data) :
                      data[i].RA.nan => data[i].Name # p.name

\* C9 witness: a Group was kept for a field that also has a row without a
\* right ascension.
C9_Witness ==
    /\ pc = "built"
    /\ \E j \in 1..Len(region.groups) :
          \E f \in GroupFieldIds(region.groups[j]) :
              FiniteRowsOf(data, f) # RowsOf(data, f)

\* C10 (as claimed; SpecGroup): constructing a Group from exactly one
\* Protostar raises nothing and leaves four derived arrays of length 0.
C10_GroupOfOneIsEmpty ==
    (pc # "start" /\ Len(protostars) = 1) =>
        /\ group.raised = "no"
        /\ DerivedLengths(group.obj) = {0}

=============================================================================
